---- MODULE Spec2Model ----
\* Model of pagerduty/resource_pagerduty_extension_servicenow.go: the
\* ServiceNow extension resource (Create / Read / Update / Delete / Import)
\* against a remote extension store, with the Read retry loop stepped in
\* seconds of elapsed wall-clock time.
EXTENDS Integers, Sequences, FiniteSets, TLC

VARIABLES
    identity,    \* d.Id()
    attrs,       \* the attributes d.Get / d.Set work on
    remote,      \* the extension the remote store holds (NoExt: none)
    pc,          \* "idle", or "reading" inside resource.Retry of Read
    op,          \* the operation running, or the last one that returned
    result,      \* the error the last finished operation returned
    elapsed,     \* seconds since resource.Retry was entered
    resultErr,   \* the last error the retried function handed to Retry
    call,        \* outcome of the operation's own remote call (not Read's Get)
    lateGet,     \* a Get was issued after the retry timeout had passed
    lastGet,     \* classification of the most recent Get of the operation
    start,       \* identity and attributes when the operation was entered
    prev,        \* the operation that returned before this one, and the
                 \* outcome if it was a Create or a Delete
    declared,    \* the attributes the last Create was entered with
    ops,         \* operations entered so far
    flatIn,      \* last argument of flattenExtensionServicenowObjects
    flatOut,     \* its result
    cfgIn,       \* SyncConfig given to the codec
    payload,     \* the opaque config payload it was serialized to
    cfgOut,      \* SyncConfig read back from the payload
    phase        \* position of the pure-function checks

vars == <<identity, attrs, remote, pc, op, result, elapsed, resultErr, call,
          lateGet, lastGet, start, prev, declared, ops, flatIn, flatOut, cfgIn, payload, cfgOut,
          phase>>

lifecycleVars == <<identity, attrs, remote, pc, op, result, elapsed, resultErr,
                   call, lateGet, lastGet, start, prev, declared, ops>>

pureVars == <<cfgIn, payload, cfgOut, phase>>

----------------------------------------------------------------------------
\* Bounds and program constants

RetryTimeoutSecs == 120
SleepSecs == 2
AlreadyGoneCode == 5001
NotFoundCode == 404
MaxOps == 2
MaxObjects == 3

----------------------------------------------------------------------------
\* Errors

NoErr == [kind |-> "nil", typed |-> FALSE, code |-> 0]
PdErr(c) == [kind |-> "remote", typed |-> TRUE, code |-> c]
GenericErr == [kind |-> "remote", typed |-> FALSE, code |-> 0]
PanicErr == [kind |-> "panic", typed |-> FALSE, code |-> 0]
TimeoutErr == [kind |-> "timeout", typed |-> FALSE, code |-> 0]

RemoteErrors == {PdErr(NotFoundCode), PdErr(AlreadyGoneCode), GenericErr}

Wrapped(e) == [kind |-> "wrapped", typed |-> FALSE, code |-> e.code]
ImportErr == [kind |-> "import", typed |-> FALSE, code |-> 0]

----------------------------------------------------------------------------
\* Data

Range(s) == {s[i] : i \in 1..Len(s)}

RECURSIVE SetList(_)
SetList(S) ==
    IF S = {} THEN <<>>
    ELSE LET x == CHOOSE y \in S : TRUE IN <<x>> \o SetList(S \ {x})

ServiceReference(t, id) == [type |-> t, id |-> id]

\* type PagerDutyExtensionServicenowConfig: struct field <-> JSON tag
\* Variant: the tags of user and password exchanged
marshalConfig_swappedTags(c) ==
    [snow_user |-> c.Password, snow_password |-> c.User,
     sync_options |-> c.SyncOptions, target |-> c.Target,
     task_type |-> c.TaskType, referer |-> c.Referer]

marshalConfig(c) ==
    [snow_user |-> c.User, snow_password |-> c.Password,
     sync_options |-> c.SyncOptions, target |-> c.Target,
     task_type |-> c.TaskType, referer |-> c.Referer]

jsonField(p, k) == IF k \in DOMAIN p THEN p[k] ELSE ""

unmarshalConfig(p) ==
    [User |-> jsonField(p, "snow_user"), Password |-> jsonField(p, "snow_password"),
     SyncOptions |-> jsonField(p, "sync_options"), Target |-> jsonField(p, "target"),
     TaskType |-> jsonField(p, "task_type"), Referer |-> jsonField(p, "referer")]

\* Values handed to d.Set
StrVal(s) == [kind |-> "string", str |-> s, list |-> <<>>]
ListVal(l) == [kind |-> "list", str |-> "", list |-> l]
StructVal == [kind |-> "struct", str |-> "", list |-> <<>>]

AttrType(key) == IF key = "extension_objects" THEN "set" ELSE "string"

\* d.Set: an unknown key, or a value that does not convert to the
\* attribute's type, is an error the callers ignore; nothing is written.
dSet(a, key, v) ==
    IF key \notin DOMAIN a THEN a
    ELSE IF AttrType(key) = "string" /\ v.kind = "string" THEN [a EXCEPT ![key] = v.str]
    ELSE IF AttrType(key) = "set" /\ v.kind = "list" THEN [a EXCEPT ![key] = Range(v.list)]
    ELSE a

expandServiceNowServiceObjects(v) ==
    LET l == SetList(v)
    IN [i \in 1..Len(l) |-> ServiceReference("service_reference", l[i])]

\* Variant: no test of the reference's type
RECURSIVE flattenExtensionServicenowObjects_noFilter(_)
flattenExtensionServicenowObjects_noFilter(serviceList) ==
    IF serviceList = <<>> THEN <<>>
    ELSE <<Head(serviceList).id>>
             \o flattenExtensionServicenowObjects_noFilter(Tail(serviceList))

RECURSIVE flattenExtensionServicenowObjects(_)
flattenExtensionServicenowObjects(serviceList) ==
    IF serviceList = <<>> THEN <<>>
    ELSE LET s == Head(serviceList)
             rest == flattenExtensionServicenowObjects(Tail(serviceList))
         IN IF s.type = "service_reference" THEN <<s.id>> \o rest ELSE rest

buildExtensionServicenowStruct(a) ==
    [id |-> "", name |-> a.name, type |-> "extension", summary |-> "",
     endpoint_url |-> a.endpoint_url, html_url |-> "",
     schema |-> [type |-> "extension_schema_reference", id |-> a.extension_schema],
     objects |-> expandServiceNowServiceObjects(a.extension_objects),
     config |-> marshalConfig([User |-> a.snow_user, Password |-> a.snow_password,
                               SyncOptions |-> a.sync_options, Target |-> a.target,
                               TaskType |-> a.task_type, Referer |-> a.referer])]

----------------------------------------------------------------------------
\* The handlers, as functions of the state they read and of the remote
\* client's answer. An answer is [err |-> error or NoErr, ext |-> extension].

\* handleNotFoundError(err, d): the helper of the state store's package
handleNotFoundError(err, id) ==
    IF err.typed /\ err.code = NotFoundCode
    THEN [err |-> NoErr, identity |-> ""]
    ELSE [err |-> Wrapped(err), identity |-> id]

\* Variant: endpoint_url written from the extension's HTML URL
readAttrs_endpointFromHtml(a, extension) ==
    LET a2 == dSet(a, "name", StrVal(extension.name))
        a3 == dSet(a2, "endpoint_url", StrVal(extension.html_url))
        a4 == dSet(a3, "html_url", StrVal(extension.html_url))
        a5 == dSet(a4, "extension_objects",
                   ListVal(flattenExtensionServicenowObjects(extension.objects)))
        config == unmarshalConfig(extension.config)
        a7 == dSet(a5, "snow_user", StrVal(config.User))
        a8 == dSet(a7, "snow_password", StrVal(config.Password))
        a9 == dSet(a8, "sync_options", StrVal(config.SyncOptions))
        a10 == dSet(a9, "target", StrVal(config.Target))
        a11 == dSet(a10, "task_type", StrVal(config.TaskType))
    IN dSet(a11, "referer", StrVal(config.Referer))

\* The d.Set calls of Read, in order
readAttrs(a, extension) ==
    LET a1 == dSet(a, "summary", StrVal(extension.summary))
        a2 == dSet(a1, "name", StrVal(extension.name))
        a3 == dSet(a2, "endpoint_url", StrVal(extension.endpoint_url))
        a4 == dSet(a3, "html_url", StrVal(extension.html_url))
        a5 == dSet(a4, "extension_objects",
                   ListVal(flattenExtensionServicenowObjects(extension.objects)))
        a6 == dSet(a5, "extension_schema", StructVal)
        config == unmarshalConfig(extension.config)
        a7 == dSet(a6, "snow_user", StrVal(config.User))
        a8 == dSet(a7, "snow_password", StrVal(config.Password))
        a9 == dSet(a8, "sync_options", StrVal(config.SyncOptions))
        a10 == dSet(a9, "target", StrVal(config.Target))
        a11 == dSet(a10, "task_type", StrVal(config.TaskType))
    IN dSet(a11, "referer", StrVal(config.Referer))

\* Variant: every Get error is retried, the classifier's nil included
retryFunc_retriesNotFound(a, id, got) ==
    IF got.err # NoErr
    THEN LET errResp == handleNotFoundError(got.err, id)
         IN [attrs |-> a, identity |-> errResp.identity, rerr |-> Wrapped(got.err),
             retryable |-> TRUE, slept |-> SleepSecs]
    ELSE [attrs |-> readAttrs(a, got.ext), identity |-> id, rerr |-> NoErr,
          retryable |-> FALSE, slept |-> 0]

\* Variant: a classified error is returned as NonRetryableError
retryFunc_nonRetryable(a, id, got) ==
    IF got.err # NoErr
    THEN LET errResp == handleNotFoundError(got.err, id)
         IN IF errResp.err # NoErr
            THEN [attrs |-> a, identity |-> errResp.identity, rerr |-> errResp.err,
                  retryable |-> FALSE, slept |-> SleepSecs]
            ELSE [attrs |-> a, identity |-> errResp.identity, rerr |-> NoErr,
                  retryable |-> FALSE, slept |-> 0]
    ELSE [attrs |-> readAttrs(a, got.ext), identity |-> id, rerr |-> NoErr,
          retryable |-> FALSE, slept |-> 0]

\* The function Read hands to resource.Retry: one Get and its handling.
\* rerr = NoErr is "return nil"; otherwise retryable tells RetryableError.
retryFunc(a, id, got) ==
    IF got.err # NoErr
    THEN LET errResp == handleNotFoundError(got.err, id)
         IN IF errResp.err # NoErr
            THEN [attrs |-> a, identity |-> errResp.identity, rerr |-> errResp.err,
                  retryable |-> TRUE, slept |-> SleepSecs]
            ELSE [attrs |-> a, identity |-> errResp.identity, rerr |-> NoErr,
                  retryable |-> FALSE, slept |-> 0]
    ELSE [attrs |-> readAttrs(a, got.ext), identity |-> id, rerr |-> NoErr,
          retryable |-> FALSE, slept |-> 0]

\* Variant: d.SetId(extension.ID) left out
resourcePagerDutyExtensionServicenowCreate_noSetId(id, got) ==
    IF got.err # NoErr
    THEN [identity |-> id, result |-> got.err, read |-> FALSE]
    ELSE [identity |-> id, result |-> NoErr, read |-> TRUE]

\* Create up to its call of Read: read tells whether Read is entered
resourcePagerDutyExtensionServicenowCreate(id, got) ==
    IF got.err # NoErr
    THEN [identity |-> id, result |-> got.err, read |-> FALSE]
    ELSE [identity |-> got.ext.id, result |-> NoErr, read |-> TRUE]

\* Variant: the client's error is wrapped before it is returned
resourcePagerDutyExtensionServicenowUpdate_wraps(id, err) ==
    IF err # NoErr
    THEN [identity |-> id, result |-> Wrapped(err), read |-> FALSE]
    ELSE [identity |-> id, result |-> NoErr, read |-> TRUE]

\* Update up to its call of Read
resourcePagerDutyExtensionServicenowUpdate(id, err) ==
    IF err # NoErr
    THEN [identity |-> id, result |-> err, read |-> FALSE]
    ELSE [identity |-> id, result |-> NoErr, read |-> TRUE]

\* Variant: d.SetId("") left out after a successful delete
resourcePagerDutyExtensionServicenowDelete_noClear(id, err) ==
    IF err # NoErr
    THEN IF err.typed /\ err.code = AlreadyGoneCode
         THEN [identity |-> id, result |-> NoErr]
         ELSE [identity |-> id, result |-> err]
    ELSE [identity |-> id, result |-> NoErr]

resourcePagerDutyExtensionServicenowDelete(id, err) ==
    IF err # NoErr
    THEN IF err.typed /\ err.code = AlreadyGoneCode
         THEN [identity |-> id, result |-> NoErr]
         ELSE [identity |-> id, result |-> err]
    ELSE [identity |-> "", result |-> NoErr]

\* Variant: every target object is seeded, not the first alone
resourcePagerDutyExtensionServicenowImport_allObjects(a, id, got) ==
    IF got.err # NoErr
    THEN [attrs |-> a, identity |-> id, result |-> ImportErr]
    ELSE LET a1 == dSet(a, "endpoint_url", StrVal(got.ext.endpoint_url))
             a2 == dSet(a1, "extension_objects",
                        ListVal([i \in 1..Len(got.ext.objects) |-> got.ext.objects[i].id]))
             a3 == dSet(a2, "extension_schema", StrVal(got.ext.schema.id))
         IN [attrs |-> a3, identity |-> id, result |-> got.err]

\* Import: indexing an empty ExtensionObjects panics
resourcePagerDutyExtensionServicenowImport(a, id, got) ==
    IF got.err # NoErr
    THEN [attrs |-> a, identity |-> id, result |-> ImportErr]
    ELSE IF got.ext.objects = <<>>
    THEN [attrs |-> dSet(a, "endpoint_url", StrVal(got.ext.endpoint_url)),
          identity |-> id, result |-> PanicErr]
    ELSE LET a1 == dSet(a, "endpoint_url", StrVal(got.ext.endpoint_url))
             a2 == dSet(a1, "extension_objects", ListVal(<<got.ext.objects[1].id>>))
             a3 == dSet(a2, "extension_schema", StrVal(got.ext.schema.id))
         IN [attrs |-> a3, identity |-> id, result |-> got.err]

----------------------------------------------------------------------------
\* The remote store and the answers of the client (pagerduty.Client)

NoExt ==
    [id |-> "", name |-> "", type |-> "", summary |-> "", endpoint_url |-> "",
     html_url |-> "", schema |-> [type |-> "", id |-> ""], objects |-> <<>>,
     config |-> [snow_user |-> ""]]

HtmlUrl(id) == IF id = "E1" THEN "h_E1" ELSE "h_E2"

Stored(ext, id) ==
    [ext EXCEPT !.id = id, !.html_url = HtmlUrl(id), !.summary = ext.name]

NewIDs == {"E2"}

Failed(e) == [err |-> e, ext |-> NoExt]

CreateAnswers(ext) ==
    {Failed(e) : e \in RemoteErrors}
        \cup {[err |-> NoErr, ext |-> Stored(ext, i)] : i \in NewIDs}

GetAnswers(id) ==
    {Failed(e) : e \in RemoteErrors}
        \cup (IF id # "" /\ remote.id = id THEN {[err |-> NoErr, ext |-> remote]} ELSE {})

UpdateAnswers(id, ext) ==
    {Failed(e) : e \in RemoteErrors}
        \cup (IF id # "" /\ remote.id = id
              THEN {[err |-> NoErr, ext |-> Stored(ext, id)]} ELSE {})

DeleteAnswers(id) ==
    RemoteErrors \cup (IF id # "" /\ remote.id = id THEN {NoErr} ELSE {})

GetClass(e) ==
    IF e = NoErr THEN "ok"
    ELSE IF handleNotFoundError(e, "x").err = NoErr THEN "notfound" ELSE "transient"

----------------------------------------------------------------------------
\* Initial states

Declared1 ==
    [name |-> "n1", html_url |-> "", endpoint_url |-> "u1",
     extension_objects |-> {"A", "B"}, extension_schema |-> "S1",
     snow_user |-> "usr1", snow_password |-> "pw1", sync_options |-> "manual_sync",
     target |-> "tgt1", task_type |-> "tt1", referer |-> "ref1"]

Declared2 ==
    [name |-> "", html_url |-> "", endpoint_url |-> "x",
     extension_objects |-> {"A"}, extension_schema |-> "S2",
     snow_user |-> "x", snow_password |-> "x", sync_options |-> "sync_all",
     target |-> "", task_type |-> "tt2", referer |-> "x"]

BlankAttrs ==
    [name |-> "", html_url |-> "", endpoint_url |-> "",
     extension_objects |-> {}, extension_schema |-> "",
     snow_user |-> "", snow_password |-> "", sync_options |-> "",
     target |-> "", task_type |-> "", referer |-> ""]

RemoteMixed ==
    [id |-> "E1", name |-> "rn", type |-> "extension", summary |-> "rn",
     endpoint_url |-> "ru", html_url |-> "h_E1",
     schema |-> [type |-> "extension_schema_reference", id |-> "S9"],
     objects |-> <<ServiceReference("team_reference", "T"),
                   ServiceReference("service_reference", "B"),
                   ServiceReference("service_reference", "A")>>,
     config |-> [snow_user |-> "ru1", snow_password |-> "rp1",
                 sync_options |-> "sync_all", target |-> "rt1",
                 task_type |-> "rk1", referer |-> "rr1"]]

RemoteBare ==
    [id |-> "E1", name |-> "rb", type |-> "extension", summary |-> "rb",
     endpoint_url |-> "", html_url |-> "h_E1",
     schema |-> [type |-> "extension_schema_reference", id |-> "S9"],
     objects |-> <<>>,
     config |-> [snow_user |-> "ru2", extra |-> "z"]]

Idle(o) ==
    /\ pc = "idle" /\ op = o /\ result = NoErr /\ elapsed = 0
    /\ resultErr = NoErr /\ call = NoErr /\ lateGet = FALSE /\ lastGet = "none"
    /\ start = [identity |-> identity, attrs |-> attrs]
    /\ prev = [op |-> "none", result |-> NoErr, call |-> NoErr, identity |-> ""]
    /\ declared = BlankAttrs
    /\ ops = 0

PureIdle ==
    /\ cfgIn = unmarshalConfig(NoExt.config) /\ payload = NoExt.config
    /\ cfgOut = cfgIn /\ phase = "none"

Init ==
    /\ identity \in {"", "E1"}
    /\ attrs \in {Declared1, Declared2, BlankAttrs}
    /\ remote \in {NoExt, RemoteMixed, RemoteBare}
    /\ Idle("none")
    /\ flatIn = <<>> /\ flatOut = <<>>
    /\ PureIdle

----------------------------------------------------------------------------
\* Actions

Begin(o) ==
    /\ pc = "idle"
    /\ ops < MaxOps
    /\ ops' = ops + 1
    /\ op' = o
    /\ start' = [identity |-> identity, attrs |-> attrs]
    /\ prev' = IF op \in {"Create", "Delete"}
               THEN [op |-> op, result |-> result, call |-> call, identity |-> identity]
               ELSE [op |-> op, result |-> NoErr, call |-> NoErr, identity |-> ""]
    /\ declared' = IF o = "Create" THEN attrs ELSE declared
    /\ lateGet' = FALSE
    /\ lastGet' = "none"
    /\ elapsed' = 0
    /\ resultErr' = NoErr

\* Create: the client call, SetId, and entry into Read's retry loop
Create ==
    /\ Begin("Create")
    /\ \E got \in CreateAnswers(buildExtensionServicenowStruct(attrs)) :
         LET r == resourcePagerDutyExtensionServicenowCreate(identity, got)
         IN /\ call' = got.err
            /\ remote' = IF got.err = NoErr THEN got.ext ELSE remote
            /\ identity' = r.identity
            /\ pc' = IF r.read THEN "reading" ELSE "idle"
            /\ result' = r.result
    /\ UNCHANGED <<attrs, flatIn, flatOut, pureVars>>

\* Read: entry into the retry loop
Read ==
    /\ Begin("Read")
    /\ call' = NoErr
    /\ pc' = "reading"
    /\ result' = NoErr
    /\ UNCHANGED <<identity, attrs, remote, flatIn, flatOut, pureVars>>

Update ==
    /\ Begin("Update")
    /\ \E got \in UpdateAnswers(identity, buildExtensionServicenowStruct(attrs)) :
         LET r == resourcePagerDutyExtensionServicenowUpdate(identity, got.err)
         IN /\ call' = got.err
            /\ remote' = IF got.err = NoErr THEN got.ext ELSE remote
            /\ identity' = r.identity
            /\ pc' = IF r.read THEN "reading" ELSE "idle"
            /\ result' = r.result
    /\ UNCHANGED <<attrs, flatIn, flatOut, pureVars>>

\* Whole seconds a Get may take
CallSecs == {0, 1}

\* Variant: no timeout
retryOpen_noTimeout(e) == TRUE

\* resource.Retry(2*time.Minute, f) calls f again while the timeout has not passed
retryOpen(e) == e < RetryTimeoutSecs

\* One call of the retried function by resource.Retry. The clock advances by
\* the function's own sleep and by dt, the whole seconds the Get takes.
RetryGet ==
    /\ pc = "reading"
    /\ retryOpen(elapsed)
    /\ \E got \in GetAnswers(identity), dt \in CallSecs :
         LET r == retryFunc(attrs, identity, got)
         IN /\ attrs' = r.attrs
            /\ identity' = r.identity
            /\ lateGet' = (lateGet \/ elapsed >= RetryTimeoutSecs)
            /\ lastGet' = GetClass(got.err)
            /\ IF got.err = NoErr
               THEN /\ flatIn' = got.ext.objects
                    /\ flatOut' = flattenExtensionServicenowObjects(got.ext.objects)
               ELSE UNCHANGED <<flatIn, flatOut>>
            /\ IF r.rerr = NoErr
               THEN pc' = "idle" /\ result' = NoErr /\ resultErr' = NoErr
                    /\ elapsed' = 0
               ELSE IF r.retryable
               THEN pc' = "reading" /\ result' = result /\ resultErr' = r.rerr
                    /\ elapsed' = elapsed + dt + r.slept
               ELSE pc' = "idle" /\ result' = r.rerr /\ resultErr' = r.rerr
                    /\ elapsed' = elapsed
    /\ UNCHANGED <<remote, op, call, start, prev, declared, ops, pureVars>>

\* resource.Retry gives up: the timeout has passed, the last error is returned
RetryTimeout ==
    /\ pc = "reading"
    /\ ~retryOpen(elapsed)
    /\ pc' = "idle"
    /\ result' = IF resultErr = NoErr THEN TimeoutErr ELSE resultErr
    /\ UNCHANGED <<identity, attrs, remote, op, elapsed, resultErr, call, lateGet,
                   lastGet, start, prev, declared, ops, flatIn, flatOut, pureVars>>

Delete ==
    /\ Begin("Delete")
    /\ \E err \in DeleteAnswers(identity) :
         LET r == resourcePagerDutyExtensionServicenowDelete(identity, err)
         IN /\ call' = err
            /\ remote' = IF err = NoErr THEN NoExt ELSE remote
            /\ identity' = r.identity
            /\ result' = r.result
    /\ pc' = "idle"
    /\ UNCHANGED <<attrs, flatIn, flatOut, pureVars>>

Import ==
    /\ Begin("Import")
    /\ \E got \in GetAnswers(identity) :
         LET r == resourcePagerDutyExtensionServicenowImport(attrs, identity, got)
         IN /\ call' = got.err
            /\ attrs' = r.attrs
            /\ identity' = r.identity
            /\ result' = r.result
    /\ pc' = "idle"
    /\ UNCHANGED <<remote, flatIn, flatOut, pureVars>>

Next == Create \/ Read \/ Update \/ RetryGet \/ RetryTimeout \/ Delete \/ Import

Spec == Init /\ [][Next]_vars

----------------------------------------------------------------------------
\* The pure functions on bounded inputs: the SyncConfig codec (serialized by
\* buildExtensionServicenowStruct, read back by Read's d.Set calls) and
\* flattenExtensionServicenowObjects.

SyncStrings == {"", "a", "b"}

SyncConfigs ==
    [User : SyncStrings, Password : SyncStrings, SyncOptions : SyncStrings,
     Target : SyncStrings, TaskType : SyncStrings, Referer : SyncStrings]

References ==
    {ServiceReference(t, i) : t \in {"service_reference", "team_reference"},
                              i \in {"A", "B"}}

RECURSIVE ListsUpTo(_)
ListsUpTo(n) ==
    IF n = 0 THEN {<<>>}
    ELSE LET shorter == ListsUpTo(n - 1)
         IN shorter \cup {Append(l, r) : l \in {x \in shorter : Len(x) = n - 1},
                                          r \in References}

WithSync(a, c) ==
    [a EXCEPT !.snow_user = c.User, !.snow_password = c.Password,
              !.sync_options = c.SyncOptions, !.target = c.Target,
              !.task_type = c.TaskType, !.referer = c.Referer]

SyncOf(a) ==
    [User |-> a.snow_user, Password |-> a.snow_password,
     SyncOptions |-> a.sync_options, Target |-> a.target,
     TaskType |-> a.task_type, Referer |-> a.referer]

InitPure ==
    /\ identity = "" /\ attrs = BlankAttrs /\ remote = NoExt
    /\ Idle("none")
    /\ \/ /\ phase = "config"
          /\ cfgIn \in SyncConfigs
          /\ flatIn = <<>>
       \/ /\ phase = "list"
          /\ cfgIn = SyncOf(BlankAttrs)
          /\ flatIn \in ListsUpTo(MaxObjects)
    /\ payload = NoExt.config
    /\ cfgOut = SyncOf(BlankAttrs)
    /\ flatOut = <<>>

\* Create / Update: the declared sync fields go into Extension.Config
Serialize ==
    /\ phase = "config"
    /\ payload' = buildExtensionServicenowStruct(WithSync(Declared1, cfgIn)).config
    /\ phase' = "sent"
    /\ UNCHANGED <<lifecycleVars, cfgIn, cfgOut, flatIn, flatOut>>

\* Read: the payload the store echoes is decoded and written attribute by attribute
Deserialize ==
    /\ phase = "sent"
    /\ cfgOut' = SyncOf(readAttrs(BlankAttrs, [RemoteMixed EXCEPT !.config = payload]))
    /\ phase' = "read"
    /\ UNCHANGED <<lifecycleVars, cfgIn, payload, flatIn, flatOut>>

Flatten ==
    /\ phase = "list"
    /\ flatOut' = flattenExtensionServicenowObjects(flatIn)
    /\ phase' = "flat"
    /\ UNCHANGED <<lifecycleVars, cfgIn, payload, cfgOut, flatIn>>

NextPure == Serialize \/ Deserialize \/ Flatten

SpecPure == InitPure /\ [][NextPure]_vars

----------------------------------------------------------------------------
\* Properties

RetryOps == {"Create", "Read", "Update"}

\* A step of RetryGet: the loop is left, or the clock has advanced
GetStep == pc = "reading" /\ retryOpen(elapsed) /\ (pc' = "idle" \/ elapsed' # elapsed)

\* C1: a Get of the retry loop that fails NotFound ends the loop at once:
\* the operation has returned nil, the identity is empty, and no attribute
\* differs from the ones the operation was entered with.
C1_ReadNotFoundClears ==
    lastGet = "notfound" =>
        /\ pc = "idle"
        /\ op \in RetryOps
        /\ result = NoErr
        /\ identity = ""
        /\ attrs = start.attrs

C1_Witness ==
    /\ pc = "idle" /\ op = "Read" /\ lastGet = "notfound"
    /\ start.identity = "E1" /\ identity = "" /\ result = NoErr
    /\ remote.id = "E1"

\* C2: a Delete whose remote delete succeeded, followed at once by a Delete
\* whose remote delete fails with code 5001: both return nil, and the
\* identity is empty after each of them.
C2_DeleteIdempotent ==
    (/\ pc = "idle" /\ op = "Delete" /\ call = PdErr(AlreadyGoneCode)
     /\ prev.op = "Delete" /\ prev.call = NoErr) =>
        /\ prev.result = NoErr /\ prev.identity = ""
        /\ result = NoErr /\ identity = ""

C2_Witness ==
    /\ pc = "idle" /\ op = "Delete" /\ call = PdErr(AlreadyGoneCode)
    /\ prev.op = "Delete" /\ prev.call = NoErr
    /\ result = NoErr /\ identity = "" /\ remote = NoExt

\* C3: the retry loop is bounded: no Get is issued once the timeout has
\* passed, the clock never runs further than one sleep and one call past it
\* inside the loop, and a loop that saw only transient failures has returned
\* an error, after the timeout.
C3_RetryBound ==
    /\ ~lateGet
    /\ pc = "reading" => \E dt \in CallSecs : elapsed < RetryTimeoutSecs + SleepSecs + dt
    /\ (pc = "idle" /\ op \in RetryOps /\ lastGet = "transient") =>
           /\ result # NoErr
           /\ elapsed >= RetryTimeoutSecs

C3_Witness ==
    /\ pc = "idle" /\ op = "Read" /\ lastGet = "transient"
    /\ result = Wrapped(GenericErr) /\ elapsed >= RetryTimeoutSecs
    /\ start.identity = "E1"

\* C4 as stated: the error of the failed client call is what Create, Update,
\* Delete (other than code 5001) and Import return.
C4_Original ==
    (/\ pc = "idle" /\ op \in {"Create", "Update", "Delete", "Import"}
     /\ call # NoErr
     /\ ~(op = "Delete" /\ call = PdErr(AlreadyGoneCode))) =>
        result = call

\* C4 amended: Create, Update and Delete (other than code 5001) return the
\* client's error itself; Import returns its own fixed error in its place.
\* Each leaves identity and attributes as they were and issues no Get of Read.
C4_FatalErrors ==
    (/\ pc = "idle" /\ op \in {"Create", "Update", "Delete", "Import"}
     /\ call # NoErr
     /\ ~(op = "Delete" /\ call = PdErr(AlreadyGoneCode))) =>
        /\ result = IF op = "Import" THEN ImportErr ELSE call
        /\ identity = start.identity
        /\ attrs = start.attrs
        /\ lastGet = "none"

C4_Witness ==
    /\ pc = "idle" /\ op = "Import" /\ call = PdErr(NotFoundCode)
    /\ result = ImportErr /\ attrs = start.attrs

\* The attributes C5 names
Converged(a, c) ==
    /\ a.name = c.name
    /\ a.endpoint_url = c.endpoint_url
    /\ a.extension_schema = c.extension_schema
    /\ SyncOf(a) = SyncOf(c)

\* C5: after a Create whose create call and Get succeeded, and after a Read
\* that follows it directly and whose Get succeeded, name, endpoint URL,
\* schema identifier and the six sync fields are the declared ones and the
\* identity is the identifier the server assigned.
C5_CreateReadConverges ==
    (/\ pc = "idle" /\ lastGet = "ok"
     /\ \/ op = "Create"
        \/ /\ op = "Read" /\ prev.op = "Create"
           /\ prev.call = NoErr /\ prev.result = NoErr /\ prev.identity # "") =>
        /\ Converged(attrs, declared)
        /\ identity \in NewIDs
        /\ identity = remote.id

C5_Witness ==
    /\ pc = "idle" /\ op = "Read" /\ lastGet = "ok"
    /\ prev.op = "Create" /\ prev.result = NoErr /\ prev.identity = "E2"
    /\ declared = Declared1 /\ Converged(attrs, Declared1)
    /\ attrs.html_url = "h_E2" /\ identity = "E2"

\* Positions of the service references of a list, and the k-th of them
ServicePositions(l) == {i \in 1..Len(l) : l[i].type = "service_reference"}
KthService(l, k) ==
    CHOOSE i \in ServicePositions(l) :
        Cardinality({j \in ServicePositions(l) : j <= i}) = k

\* C6: the flattened list holds, in order, the identifier of every reference
\* tagged "service_reference" and nothing else.
C6_FlattenFilters ==
    phase = "flat" =>
        /\ Len(flatOut) = Cardinality(ServicePositions(flatIn))
        /\ \A k \in 1..Len(flatOut) : flatOut[k] = flatIn[KthService(flatIn, k)].id

C6_Witness ==
    /\ phase = "flat"
    /\ flatIn = <<ServiceReference("service_reference", "B"),
                  ServiceReference("team_reference", "A"),
                  ServiceReference("service_reference", "A")>>
    /\ flatOut = <<"B", "A">>

\* C7: the six sync fields written by Read from the payload that Create /
\* Update built are the six fields given, each under its own name.
C7_SyncConfigRoundTrip ==
    phase = "read" => cfgOut = cfgIn

C7_Witness ==
    /\ phase = "read"
    /\ cfgIn = [User |-> "a", Password |-> "b", SyncOptions |-> "", Target |-> "b",
                TaskType |-> "a", Referer |-> ""]
    /\ cfgOut = cfgIn
    /\ payload.snow_user = "a" /\ payload.snow_password = "b"

\* C8: an Import whose Get succeeded on an extension with a non-empty
\* target-object list returns nil and changes three attributes only:
\* extension_objects is the first reference's identifier alone, endpoint_url
\* and extension_schema are the extension's; the identity stays.
C8_ImportPartialSeed ==
    (/\ pc = "idle" /\ op = "Import" /\ call = NoErr /\ remote.objects # <<>>) =>
        /\ result = NoErr
        /\ attrs = [start.attrs EXCEPT !.endpoint_url = remote.endpoint_url,
                                       !.extension_objects = {remote.objects[1].id},
                                       !.extension_schema = remote.schema.id]
        /\ identity = start.identity

C8_Witness ==
    /\ pc = "idle" /\ op = "Import" /\ call = NoErr /\ result = NoErr
    /\ remote = RemoteMixed /\ start.attrs = Declared1
    /\ attrs.extension_objects = {"T"} /\ attrs.extension_schema = "S9"
    /\ attrs.name = "n1"

\* C9: a Get failure of the retry loop that is not NotFound keeps the loop
\* running and leaves identity and attributes alone; while the timeout has
\* not passed the loop can issue its next Get; an error comes out of the
\* loop only after the timeout has passed.
C9_RetryClassification ==
    /\ []((pc = "reading" /\ elapsed < RetryTimeoutSecs) => ENABLED RetryGet)
    /\ [][(GetStep /\ lastGet' = "transient") =>
             /\ pc' = "reading"
             /\ identity' = identity
             /\ attrs' = attrs
             /\ resultErr' # NoErr]_vars
    /\ []((pc = "idle" /\ op \in RetryOps /\ call = NoErr /\ result # NoErr) =>
             (lastGet = "transient" /\ elapsed >= RetryTimeoutSecs))

C9_Witness ==
    /\ pc = "reading" /\ op = "Read" /\ lastGet = "transient"
    /\ elapsed > SleepSecs /\ elapsed < RetryTimeoutSecs
    /\ resultErr = Wrapped(PdErr(AlreadyGoneCode))
    /\ identity = "E1" /\ attrs = start.attrs

\* C10: a failed create call leaves the identity and issues no Get; a
\* successful one sets the identity to the assigned identifier before the
\* first Get; and a Create that returns nil leaves the identity either that
\* identifier or empty, empty exactly when its Get failed NotFound.
C10_CreateIdentity ==
    op = "Create" =>
        /\ call # NoErr =>
               (pc = "idle" /\ identity = start.identity /\ lastGet = "none")
        /\ (call = NoErr /\ pc = "reading") =>
               (identity = remote.id /\ identity \in NewIDs)
        /\ (call = NoErr /\ pc = "idle" /\ result = NoErr) =>
               /\ remote.id \in NewIDs
               /\ identity \in {remote.id, ""}
               /\ identity = "" <=> lastGet = "notfound"

C10_Witness ==
    /\ op = "Create" /\ pc = "idle" /\ call = NoErr /\ result = NoErr
    /\ lastGet = "notfound" /\ identity = "" /\ remote.id = "E2"

====
